---- MODULE Spec2Model ----
(***************************************************************************)
(* Model of the material-flow balance engine (src/mfm/model.py).           *)
(*                                                                         *)
(* Quantities are Python floats (IEEE-754 binary64).  They are modelled    *)
(* bit-exactly for finite, normal values: a float is a sign, a 53-bit      *)
(* significand held as a little-endian sequence of 15-bit limbs, and a     *)
(* binary exponent; every operation computes the exact result and rounds   *)
(* it to nearest, ties to even.  Overflow, subnormals, NaN and signed      *)
(* zero are outside the model (the inputs drawn below stay far from them). *)
(***************************************************************************)
EXTENDS Integers, Sequences, FiniteSets, TLC

\* ------------------------------------------------------------------------
\* Natural numbers of any size, as little-endian limb sequences (no leading
\* zero limb; zero is the empty sequence).
\* ------------------------------------------------------------------------
\* limbs of 15 bits: a product of two limbs plus a carry stays below 2^31
LimbBits == 5 * 3
Base == 2 ^ LimbBits

RECURSIVE BNorm(_)
BNorm(a) ==
    IF a = <<>> THEN <<>>
    ELSE IF a[Len(a)] = 0 THEN BNorm(SubSeq(a, 1, Len(a) - 1)) ELSE a

RECURSIVE BFromInt(_)
BFromInt(n) == IF n = 0 THEN <<>> ELSE <<n % Base>> \o BFromInt(n \div Base)

RECURSIVE BToInt(_)
BToInt(a) == IF a = <<>> THEN 0 ELSE Head(a) + Base * BToInt(Tail(a))

RECURSIVE BAddC(_, _, _)
BAddC(a, b, c) ==
    IF a = <<>> /\ b = <<>> THEN (IF c = 0 THEN <<>> ELSE <<c>>)
    ELSE LET x == (IF a = <<>> THEN 0 ELSE Head(a))
                  + (IF b = <<>> THEN 0 ELSE Head(b)) + c
         IN  <<x % Base>> \o BAddC(IF a = <<>> THEN <<>> ELSE Tail(a),
                                   IF b = <<>> THEN <<>> ELSE Tail(b),
                                   x \div Base)

BAdd(a, b) == BAddC(a, b, 0)

\* a - b for a >= b
RECURSIVE BSubC(_, _, _)
BSubC(a, b, c) ==
    IF a = <<>> THEN <<>>
    ELSE LET x == Head(a) - (IF b = <<>> THEN 0 ELSE Head(b)) - c
         IN  <<x % Base>> \o BSubC(Tail(a),
                                   IF b = <<>> THEN <<>> ELSE Tail(b),
                                   IF x < 0 THEN 1 ELSE 0)

BSub(a, b) == BNorm(BSubC(a, b, 0))

RECURSIVE BMulSmall(_, _, _)
BMulSmall(a, d, c) ==
    IF a = <<>> THEN (IF c = 0 THEN <<>> ELSE <<c>>)
    ELSE LET x == Head(a) * d + c
         IN  <<x % Base>> \o BMulSmall(Tail(a), d, x \div Base)

RECURSIVE BMul(_, _)
BMul(a, b) ==
    IF a = <<>> \/ b = <<>> THEN <<>>
    ELSE BNorm(BAdd(BMulSmall(a, Head(b), 0),
                    IF Tail(b) = <<>> THEN <<>> ELSE <<0>> \o BMul(a, Tail(b))))

\* -1, 0, 1 as a < b, a = b, a > b
RECURSIVE BCmp(_, _)
BCmp(a, b) ==
    IF Len(a) # Len(b) THEN (IF Len(a) < Len(b) THEN -1 ELSE 1)
    ELSE IF a = <<>> THEN 0
    ELSE IF a[Len(a)] # b[Len(b)] THEN (IF a[Len(a)] < b[Len(b)] THEN -1 ELSE 1)
    ELSE BCmp(BNorm(SubSeq(a, 1, Len(a) - 1)), BNorm(SubSeq(b, 1, Len(b) - 1)))

LimbLen(x) == CHOOSE k \in 1..LimbBits : 2 ^ (k - 1) <= x /\ x < 2 ^ k

BBitLen(a) == IF a = <<>> THEN 0 ELSE LimbBits * (Len(a) - 1) + LimbLen(a[Len(a)])

BIsOdd(a) == a # <<>> /\ Head(a) % 2 = 1

BShl(a, k) ==
    IF a = <<>> THEN <<>>
    ELSE [i \in 1..(k \div LimbBits) |-> 0] \o BMulSmall(a, 2 ^ (k % LimbBits), 0)

\* floor(a / 2^k)
BShr(a, k) ==
    LET w == k \div LimbBits
        s == k % LimbBits
        n == Len(a) - w
    IN  IF n <= 0 THEN <<>>
        ELSE BNorm([i \in 1..n |->
                      (a[i + w] \div 2 ^ s)
                      + (IF i + w < Len(a) THEN (a[i + w + 1] % 2 ^ s) * 2 ^ (LimbBits - s)
                         ELSE 0)])

\* ------------------------------------------------------------------------
\* binary64
\* ------------------------------------------------------------------------
Precision == 53

FZero == [s |-> 0, m |-> <<>>, e |-> 0]

\* (-1)^s * M * 2^E (plus, when sticky, a nonzero amount below M's last bit),
\* rounded to nearest, ties to even
FRenorm(s, q, E) ==
    IF BBitLen(q) > Precision
    THEN [s |-> s, m |-> BShr(q, 1), e |-> E + 1]
    ELSE [s |-> s, m |-> q, e |-> E]

\* q = floor(M / 2^k), rounded up when the k bits dropped exceed a half, or
\* equal it and q is odd (or more lies below them)
FRoundBits(s, M, E, sticky, k, q) ==
    LET c == BCmp(BSub(M, BShl(q, k)), BShl(<<1>>, k - 1))
    IN  FRenorm(s, IF c > 0 \/ (c = 0 /\ (sticky \/ BIsOdd(q))) THEN BAdd(q, <<1>>) ELSE q,
                E + k)

FRoundLen(s, M, E, sticky, L) ==
    IF L = 0 THEN FZero
    ELSE IF L <= Precision
    THEN [s |-> s, m |-> BShl(M, Precision - L), e |-> E - (Precision - L)]
    ELSE FRoundBits(s, M, E, sticky, L - Precision, BShr(M, L - Precision))

FRound(s, M, E, sticky) == FRoundLen(s, M, E, sticky, BBitLen(M))

FFromInt(n) == FRound(IF n < 0 THEN 1 ELSE 0, BFromInt(IF n < 0 THEN -n ELSE n), 0, FALSE)

FIsZero(a) == a.m = <<>>

FNeg(a) == IF FIsZero(a) THEN a ELSE [a EXCEPT !.s = 1 - a.s]

\* -1, 0, 1 as |a| < |b|, |a| = |b|, |a| > |b|
FCmpAbs(a, b) ==
    IF FIsZero(a) \/ FIsZero(b)
    THEN (IF FIsZero(a) /\ FIsZero(b) THEN 0 ELSE IF FIsZero(a) THEN -1 ELSE 1)
    ELSE IF a.e # b.e THEN (IF a.e < b.e THEN -1 ELSE 1)
    ELSE BCmp(a.m, b.m)

FSign(a) == IF FIsZero(a) THEN 0 ELSE IF a.s = 1 THEN -1 ELSE 1

FCmp(a, b) ==
    IF FSign(a) # FSign(b) THEN (IF FSign(a) < FSign(b) THEN -1 ELSE 1)
    ELSE FSign(a) * FCmpAbs(a, b)

FLt(a, b) == FCmp(a, b) < 0
FLe(a, b) == FCmp(a, b) <= 0
FGt(a, b) == FCmp(a, b) > 0
FGe(a, b) == FCmp(a, b) >= 0

\* the signed sum of the aligned significands Ma, Mb
FAddAligned(sa, Ma, sb, Mb, e) ==
    LET ge == BCmp(Ma, Mb) >= 0
    IN  FRound(IF sa = sb \/ ge THEN sa ELSE sb,
               IF sa = sb THEN BAdd(Ma, Mb) ELSE IF ge THEN BSub(Ma, Mb) ELSE BSub(Mb, Ma),
               e, FALSE)

FAddAt(a, b, e) == FAddAligned(a.s, BShl(a.m, a.e - e), b.s, BShl(b.m, b.e - e), e)

FAdd(a, b) ==
    IF FIsZero(a) THEN b
    ELSE IF FIsZero(b) THEN a
    ELSE FAddAt(a, b, IF a.e < b.e THEN a.e ELSE b.e)

FSub(a, b) == FAdd(a, FNeg(b))

FMul(a, b) ==
    IF FIsZero(a) \/ FIsZero(b) THEN FZero
    ELSE FRound((a.s + b.s) % 2, BMul(a.m, b.m), a.e + b.e, FALSE)

Limb(a, i) == IF i <= Len(a) THEN a[i] ELSE 0

\* One digit of long division in base 2^15, for R = r * 2^15 with r < d and d's
\* top limb at least 2^14: the estimate from the top limbs is at most 2 too
\* large, so it is lowered at most twice.
DivLower(R, d, q) == IF BCmp(BNorm(BMulSmall(d, q, 0)), R) > 0 THEN q - 1 ELSE q

DivCap(est) == IF est > Base - 1 THEN Base - 1 ELSE est

DivRem(R, d, q) == <<q, BSub(R, BNorm(BMulSmall(d, q, 0)))>>

DivDigit(R, d) ==
    DivRem(R, d, DivLower(R, d, DivLower(R, d,
        DivCap((Limb(R, Len(d) + 1) * Base + Limb(R, Len(d))) \div d[Len(d)]))))

\* the digit floor(r * 2^15 / d) and the remainder
DivStep(r, d) == DivDigit(IF r = <<>> THEN <<>> ELSE <<0>> \o r, d)

\* n more digits of r / d: the quotient digits, least significant first, and
\* the last remainder
RECURSIVE DivDigits(_, _, _, _)
DivDigits(r, d, n, q) ==
    IF n = 0 \/ Len(q) < 0 THEN <<q, r>>
    ELSE LET s == DivStep(r, d) IN DivDigits(s[2], d, n - 1, <<s[1]>> \o q)

FDivRound(sign, qr, E) == FRound(sign, BNorm(qr[1]), E, qr[2] # <<>>)

\* n / d for significands n, d of 60 bits: 60 quotient bits below the binary
\* point, then rounding
FDivLong(sign, n, d, E, lead) ==
    FDivRound(sign, DivDigits(IF lead = 1 THEN BSub(n, d) ELSE n, d, 4, <<lead>>), E)

FDivSig(sign, n, d, E) == FDivLong(sign, n, d, E, IF BCmp(n, d) >= 0 THEN 1 ELSE 0)

\* a / b for b # 0
FDiv(a, b) ==
    IF FIsZero(a) THEN FZero
    ELSE FDivSig((a.s + b.s) % 2, BShl(a.m, 7), BShl(b.m, 7), a.e - b.e - 4 * LimbBits)

FMax(a, b) == IF FGt(b, a) THEN b ELSE a

\* numpy: x.round(0).astype(int), round half to even, as an integer
FRint(a) ==
    IF FIsZero(a) THEN 0
    ELSE LET sg == IF a.s = 1 THEN -1 ELSE 1 IN
         IF a.e >= 0 THEN sg * BToInt(BShl(a.m, a.e))
         ELSE LET k    == -a.e
                  q    == BShr(a.m, k)
                  r    == BSub(a.m, BShl(q, k))
                  c    == BCmp(r, BShl(<<1>>, k - 1))
                  up   == c > 0 \/ (c = 0 /\ BIsOdd(q))
              IN  sg * (BToInt(q) + (IF up THEN 1 ELSE 0))


\* float(n) of a Python int
F(n) == FFromInt(n)

\* sum of a float64 Series holding the whole numbers vals (0.0 when empty)
RECURSIVE FSumFrom(_, _)
FSumFrom(vals, acc) ==
    IF vals = <<>> THEN acc ELSE FSumFrom(Tail(vals), FAdd(acc, F(Head(vals))))

FSum(vals) == FSumFrom(vals, FZero)

\* sum of an array of floats
RECURSIVE FSumFloatsFrom(_, _)
FSumFloatsFrom(xs, acc) ==
    IF xs = <<>> THEN acc ELSE FSumFloatsFrom(Tail(xs), FAdd(acc, Head(xs)))

FSumFloats(xs) == FSumFloatsFrom(xs, FZero)

\* ------------------------------------------------------------------------
\* Tables (pandas DataFrame): a sequence of columns, each a name, a dtype
\* and one cell per row: vals (whole numbers) for a numeric column, text
\* (strings) for an object column.
\* ------------------------------------------------------------------------
NoCol == 0

\* The keywords of the column resolver that occur in the lowercased column
\* name (k in c.lower()), for the column names of the tables drawn below.
ColumnKeywords(name) ==
    CASE name = "Weight (kg)"       -> {"kg", "weight"}
      [] name = "Units Produced"    -> {"produced"}
      [] name = "Electricity (kWh)" -> {"electric"}
      [] name = "Gas (kWh)"         -> {"gas"}
      [] name = "Waste Type"        -> {"waste"}
      [] name = "Quantity (kg)"     -> {"kg", "quantity"}
      [] name = "Disposal Route"    -> {"route", "disposal"}
      [] OTHER                      -> {}

\* the first column whose name contains a keyword; NoCol for None
_find_col(df, keywords) ==
    LET hits == {i \in 1..Len(df) : ColumnKeywords(df[i].name) \cap keywords # {}}
    IN  IF hits = {} THEN NoCol ELSE CHOOSE i \in hits : \A j \in hits : i <= j

Cells(col) == IF "vals" \in DOMAIN col THEN col.vals ELSE col.text

NumRows(df) == IF df = <<>> THEN 0 ELSE Len(Cells(df[1]))

\* Series.astype(float)
AsTypeFloat(col) == [col EXCEPT !.dtype = "float64"]

\* float(Series.sum()): None is modelled as the record [none |-> TRUE]
None == [none |-> TRUE]

_sum_material_in_kg(material_df) ==
    LET kg_col == _find_col(material_df, {"kg", "weight"})
    IN  IF kg_col # NoCol THEN FSum(AsTypeFloat(material_df[kg_col]).vals) ELSE None

_sum_waste_kg(waste_df) ==
    LET kg_col == _find_col(waste_df, {"kg", "quantity"})
    IN  IF kg_col # NoCol THEN FSum(AsTypeFloat(waste_df[kg_col]).vals) ELSE None

EmptyWasteByType ==
    << [name |-> "Waste Type", dtype |-> "object", text |-> <<>>],
       [name |-> "Quantity (kg)", dtype |-> "object", text |-> <<>>] >>

\* The frames held when _sum_waste_by_type returns: waste_df is the caller's
\* frame, out the frame returned (a copy of the two selected columns, the
\* quantity converted to float).
_sum_waste_by_type(waste_df) ==
    LET type_col == _find_col(waste_df, {"waste"})
        kg_col   == _find_col(waste_df, {"kg", "quantity"})
    IN  IF type_col = NoCol \/ kg_col = NoCol
        THEN [waste_df |-> waste_df, out |-> EmptyWasteByType]
        ELSE [waste_df |-> waste_df,
              out |-> << [waste_df[type_col] EXCEPT !.name = "Waste Type"],
                         AsTypeFloat([waste_df[kg_col] EXCEPT !.name = "Quantity (kg)"]) >>]

_energy_totals(energy_df) ==
    LET elec_col == _find_col(energy_df, {"electric"})
        gas_col  == _find_col(energy_df, {"gas"})
    IN  [elec |-> IF elec_col # NoCol THEN FSum(energy_df[elec_col].vals) ELSE FZero,
         gas  |-> IF gas_col # NoCol THEN FSum(energy_df[gas_col].vals) ELSE FZero,
         has_energy |-> elec_col # NoCol \/ gas_col # NoCol]

\* ------------------------------------------------------------------------
\* compute_balances, statement by statement
\* ------------------------------------------------------------------------
assumed_unit_mass == F(15)

\* sc.get(key, 0.0) / 100.0
PctFraction(pct) == FDiv(F(pct), F(100))

\* Mutations: the scenario left unapplied, and the operands of the
\* subtraction exchanged.
WasteOutScnUnscaled(waste_out, scrap_reduction_pct) == waste_out

WasteOutScnSwapped(waste_out, scrap_reduction_pct) ==
    FMul(waste_out, FSub(scrap_reduction_pct, F(1)))

\* waste_out_scn = waste_out * (1.0 - scrap_reduction_pct)
WasteOutScn(waste_out, scrap_reduction_pct) ==
    FMul(waste_out, FSub(F(1), scrap_reduction_pct))

\* Mutations: the scenario left unapplied, and the factor without its 1.0.
ProdMassOutUnscaled(prod_mass_out_base, yield_improve_pct) == prod_mass_out_base

ProdMassOutNoBase(prod_mass_out_base, yield_improve_pct) ==
    FMul(prod_mass_out_base, yield_improve_pct)

\* prod_mass_out = prod_mass_out_base * (1.0 + yield_improve_pct)
ProdMassOut(prod_mass_out_base, yield_improve_pct) ==
    FMul(prod_mass_out_base, FAdd(F(1), yield_improve_pct))

\* Mutation: the residual without the clamp.
UnaccountedUnclamped(mat_in, prod_mass_out, waste_out_scn) ==
    FSub(FSub(mat_in, prod_mass_out), waste_out_scn)

\* unaccounted = max(mat_in - prod_mass_out - waste_out_scn, 0.0)
Unaccounted(mat_in, prod_mass_out, waste_out_scn) ==
    FMax(FSub(FSub(mat_in, prod_mass_out), waste_out_scn), FZero)

\* loss_targets: the cutting/forming blocks, else the first block
LossTargets(blocks) ==
    LET tagged == SelectSeq(blocks, LAMBDA b : b.type \in {"cutting", "forming"})
    IN  IF tagged = <<>> THEN <<blocks[1]>> ELSE tagged

\* the float literals 0.6 and 0.4
Lit06 == FDiv(F(6), F(10))
Lit04 == FDiv(F(4), F(10))

\* split: np.array([0.6, 0.4])[:n] / its sum for n >= 2, else np.array([1.0])
LossSplit(n) ==
    IF n >= 2
    THEN LET cut   == SubSeq(<<Lit06, Lit04>>, 1, IF n < 2 THEN n ELSE 2)
             total == FSumFloats(cut)
         IN  [i \in 1..Len(cut) |-> FDiv(cut[i], total)]
    ELSE <<F(1)>>

\* a dict as the sequence of its (key, value) items in insertion order;
\* d[k] = v keeps the place of a key already present
DictPut(d, k, v) ==
    IF \E i \in 1..Len(d) : d[i][1] = k
    THEN [i \in 1..Len(d) |-> IF d[i][1] = k THEN <<k, v>> ELSE d[i]]
    ELSE Append(d, <<k, v>>)

RECURSIVE DictFrom(_, _)
DictFrom(items, d) ==
    IF items = <<>> THEN d
    ELSE DictFrom(Tail(items), DictPut(d, Head(items)[1], Head(items)[2]))

\* losses = {loss_targets[i]["user_label"]: unaccounted * float(split[i]) ...};
\* split[i] beyond the end of split is an IndexError (checked by the caller)
Losses(loss_targets, unaccounted, split) ==
    DictFrom([i \in 1..Len(loss_targets) |->
                 <<loss_targets[i].user_label, FMul(unaccounted, split[i])>>], <<>>)

\* Mutation: the scenario left unapplied.
EnergyScnUnscaled(kwh, has_energy, energy_intensity_improve_pct) == kwh

\* elec_kwh *= (1.0 - energy_intensity_improve_pct), likewise gas_kwh
EnergyScn(kwh, has_energy, energy_intensity_improve_pct) ==
    IF has_energy /\ FGt(energy_intensity_improve_pct, FZero)
    THEN FMul(kwh, FSub(F(1), energy_intensity_improve_pct))
    ELSE kwh

\* Mutation: every block given the same weight.
AllocWeightsEqual(blocks) == [i \in 1..Len(blocks) |-> FDiv(F(1), F(Len(blocks)))]

\* weights: max(float(yield_pct), 1.0) per block, normalised
AllocWeights(blocks) ==
    LET raw   == [i \in 1..Len(blocks) |-> FMax(F(blocks[i].yield_pct), F(1))]
        total == FSumFloats(raw)
    IN  IF FGt(total, FZero)
        THEN [i \in 1..Len(blocks) |-> FDiv(raw[i], total)]
        ELSE [i \in 1..Len(blocks) |-> FDiv(F(1), F(Len(blocks)))]

\* energy_alloc: one row per block, (kwh * weights).round(0).astype(int)
EnergyAlloc(blocks, elec_kwh, gas_kwh) ==
    LET weights == AllocWeights(blocks)
    IN  [i \in 1..Len(blocks) |->
            [Process         |-> blocks[i].user_label,
             Electricity_kWh |-> FRint(FMul(elec_kwh, weights[i])),
             Gas_kWh         |-> FRint(FMul(gas_kwh, weights[i]))]]

\* str.lower() on the route values of the tables drawn below
StrLower(s) ==
    CASE s = "Recycling" -> "recycling"
      [] s = "REUSE"     -> "reuse"
      [] s = "Landfill"  -> "landfill"
      [] OTHER           -> s

\* Mutation: tmp = waste_df without the copy, so the conversion reaches the
\* caller's frame.
DivertedFramesInPlace(waste_df, kg_col) ==
    [waste_df |-> [waste_df EXCEPT ![kg_col] = AsTypeFloat(waste_df[kg_col])],
     tmp      |-> [waste_df EXCEPT ![kg_col] = AsTypeFloat(waste_df[kg_col])]]

\* The frames held after
\*   tmp = waste_df.copy(); tmp[kg_col] = tmp[kg_col].astype(float)
\* waste_df is the caller's frame, tmp the local one.
DivertedFrames(waste_df, kg_col) ==
    [waste_df |-> waste_df,
     tmp      |-> [waste_df EXCEPT ![kg_col] = AsTypeFloat(waste_df[kg_col])]]

\* diverted_kg: the quantities of the rows routed to recycling or reuse
DivertedKg(tmp, route_col, kg_col) ==
    LET rows == SelectSeq([i \in 1..NumRows(tmp) |-> i],
                          LAMBDA i : StrLower(tmp[route_col].text[i]) \in {"recycling", "reuse"})
    IN  FSum([j \in 1..Len(rows) |-> tmp[kg_col].vals[rows[j]]])

\* The alternatives of the opportunity rules that occur in the lowercased
\* waste type (str.contains), for the waste types of the tables drawn below.
TypeWords(t) ==
    CASE t = "Steel scrap"  -> {"steel", "scrap"}
      [] t = "Mixed waste"  -> {"mixed"}
      [] t = "Paint sludge" -> {"sludge"}
      [] OTHER              -> {}

\* float(rows["Quantity (kg)"].sum()) over the rows whose type matches
TypeQuantity(waste_by_type, words) ==
    LET rows == SelectSeq([i \in 1..NumRows(waste_by_type) |-> i],
                          LAMBDA i : TypeWords(waste_by_type[1].text[i]) \cap words # {})
    IN  [empty |-> rows = <<>>,
         kg    |-> FSum([j \in 1..Len(rows) |-> waste_by_type[2].vals[rows[j]]])]

Opportunities(waste_by_type) ==
    IF NumRows(waste_by_type) = 0 THEN <<>>
    ELSE LET steel  == TypeQuantity(waste_by_type, {"steel", "metal", "scrap"})
             mixed  == TypeQuantity(waste_by_type, {"mixed"})
             sludge == TypeQuantity(waste_by_type, {"sludge", "hazard"})
         IN  (IF ~steel.empty /\ FGt(steel.kg, F(500))
              THEN <<"High clean metal scrap: consider closed-loop recycling with supplier or local reprocessor.">>
              ELSE <<>>)
             \o (IF ~mixed.empty /\ FGt(mixed.kg, F(300))
                 THEN <<"Mixed waste is significant: segregation could increase recycling rate and reduce disposal cost.">>
                 ELSE <<>>)
             \o (IF ~sludge.empty /\ FGt(sludge.kg, F(100))
                 THEN <<"Hazardous/sludge stream: review upstream process controls and chemical use to reduce generation.">>
                 ELSE <<>>)

\* Mutation: the unaccounted mass left in the throughput.
UsefulThroughGross(mat_in, waste_out_scn, unaccounted) ==
    FMax(FSub(mat_in, waste_out_scn), FZero)

\* useful_through = max(mat_in - waste_out_scn - unaccounted, 0.0)
UsefulThrough(mat_in, waste_out_scn, unaccounted) ==
    FMax(FSub(FSub(mat_in, waste_out_scn), unaccounted), FZero)

\* rows of flows_table, in the order they are appended
FlowRows(model, mat_in, prod_mass_out, waste_out_scn, unaccounted, losses) ==
    LET blocks == model.blocks
        useful_through == UsefulThrough(mat_in, waste_out_scn, unaccounted)
    IN  << [from |-> model.boundary_start, to |-> blocks[1].user_label,
            kg |-> mat_in, kind |-> "material_in"] >>
        \o [i \in 1..(Len(blocks) - 1) |->
              [from |-> blocks[i].user_label, to |-> blocks[i + 1].user_label,
               kg |-> useful_through, kind |-> "throughput_proxy"]]
        \o << [from |-> blocks[Len(blocks)].user_label, to |-> model.boundary_end,
               kg |-> prod_mass_out, kind |-> "product_out"],
              [from |-> "All processes", to |-> "Waste streams",
               kg |-> waste_out_scn, kind |-> "waste_out"] >>
        \o [i \in 1..Len(losses) |->
              [from |-> losses[i][1], to |-> "Process losses (unaccounted)",
               kg |-> losses[i][2], kind |-> "loss_inferred"]]

\* (num / den) * 100.0 if den > 0 else 0.0
RatioPct(num, den) == IF FGt(den, FZero) THEN FMul(FDiv(num, den), F(100)) ELSE FZero

\* num / den if den > 0 else 0.0
Ratio(num, den) == IF FGt(den, FZero) THEN FDiv(num, den) ELSE FZero

\* an exception leaving compute_balances, with the line that raises it
Raised(exc, line) == [status |-> "raised", exc |-> exc, line |-> line]

IsNone(v) == "none" \in DOMAIN v

\* A message is its template and the values formatted into it
\* ({x:.0f} and {x:,.0f} print the float rounded to a whole number).
MsgScrap(pct)    == <<"Scenario applied: scrap/waste reduced by {:.0f}%.", FRint(F(pct))>>
MsgYield(pct)    == <<"Scenario applied: yield improved by {:.0f}% (proxy increases product output).", FRint(F(pct))>>
MsgEnergy(pct)   == <<"Scenario applied: energy intensity improved by {:.0f}% (reduces site kWh).", FRint(F(pct))>>
MsgDetected(u)   == <<"Detected ~{:,.0f} kg unaccounted material. Likely process losses (offcuts/rejects). Flagged for review.", FRint(u)>>
MsgAllocated     == <<"AI assist: allocated site energy to processes using a simple activity proxy (editable assumption).">>

AssumeNoMaterial == "Material input mass missing; treated as 0 kg."
AssumeNoWaste    == "Waste mass missing; treated as 0 kg."
AssumeUnitMass   == "Converted output to mass using assumed unit mass = 15.0 kg/pc (demo assumption)."
AssumeLosses     == "Unaccounted material attributed to cutting/forming losses (demo heuristic)."
AssumeEnergy     == "Energy is site-level; allocation to processes is optional and uses a proxy (throughput shares)."
AssumeNoRoute    == "No disposal route column detected; diversion % may be incomplete."

\* The local variables of compute_balances as a record v, carried through the
\* sections of the function in order.  v.model is the caller's model, v.raised
\* the exception that ended the call (None while it runs).
Locals(model) ==
    [model |-> model, data |-> model.data, blocks |-> model.blocks, sc |-> model.scenarios,
     ai_messages |-> <<>>, assumptions |-> <<>>, raised |-> None]

Raise(v, exc, line) == [raised |-> Raised(exc, line)] @@ v

Running(v) == IsNone(v.raised)

\* x if x is not None, else 0.0
OrZero(x) == IF IsNone(x) THEN FZero ELSE x

\* qty = float(prod_df[qty_col].sum()) if qty_col else 0.0
Qty(prod_df) ==
    LET qty_col == _find_col(prod_df, {"qty", "produced", "quantity"})
    IN  IF qty_col # NoCol THEN FSum(prod_df[qty_col].vals) ELSE FZero

\* ---------- Inputs ----------
ReadInputs(v, mat_sum, waste_sum) ==
    [mat_in    |-> OrZero(mat_sum),
     waste_df  |-> v.data.waste_summary,
     waste_out |-> OrZero(waste_sum),
     prod_mass_out_base |-> FMul(Qty(v.data.production_output), assumed_unit_mass),
     assumptions |-> v.assumptions
                     \o (IF IsNone(mat_sum) THEN <<AssumeNoMaterial>> ELSE <<>>)
                     \o (IF IsNone(waste_sum) THEN <<AssumeNoWaste>> ELSE <<>>)
                     \o <<AssumeUnitMass>>] @@ v

Inputs(v) ==
    IF "material_purchases" \notin DOMAIN v.data THEN Raise(v, "KeyError", 57)
    ELSE IF "waste_summary" \notin DOMAIN v.data THEN Raise(v, "KeyError", 62)
    ELSE IF "production_output" \notin DOMAIN v.data THEN Raise(v, "KeyError", 69)
    ELSE ReadInputs(v, _sum_material_in_kg(v.data.material_purchases),
                    _sum_waste_kg(v.data.waste_summary))

\* ---------- Scenarios ----------
ScaleMasses(v, scrap_reduction_pct, yield_improve_pct) ==
    [scrap_reduction_pct |-> scrap_reduction_pct,
     waste_out_scn       |-> WasteOutScn(v.waste_out, scrap_reduction_pct),
     yield_improve_pct   |-> yield_improve_pct,
     prod_mass_out       |-> ProdMassOut(v.prod_mass_out_base, yield_improve_pct),
     energy_intensity_improve_pct |-> PctFraction(v.sc.energy_intensity_improve_pct),
     ai_messages |-> v.ai_messages
                     \o (IF FGt(scrap_reduction_pct, FZero)
                         THEN <<MsgScrap(v.sc.scrap_reduction_pct)>> ELSE <<>>)
                     \o (IF FGt(yield_improve_pct, FZero)
                         THEN <<MsgYield(v.sc.yield_improve_pct)>> ELSE <<>>)] @@ v

ApplyScenarios(v) ==
    IF ~Running(v) THEN v
    ELSE ScaleMasses(v, PctFraction(v.sc.scrap_reduction_pct),
                     PctFraction(v.sc.yield_improve_pct))

\* ---------- Unaccounted material ----------
Attribute(v, unaccounted, loss_targets, split) ==
    IF Len(loss_targets) > Len(split) THEN Raise(v, "IndexError", 107)
    ELSE [unaccounted  |-> unaccounted,
          loss_targets |-> loss_targets,
          split        |-> split,
          losses       |-> Losses(loss_targets, unaccounted, split),
          ai_messages  |-> v.ai_messages
                           \o (IF FGt(unaccounted, FZero) THEN <<MsgDetected(unaccounted)>>
                               ELSE <<>>),
          assumptions  |-> v.assumptions
                           \o (IF FGt(unaccounted, FZero) THEN <<AssumeLosses>> ELSE <<>>)] @@ v

AttributeTo(v, loss_targets) ==
    Attribute(v, Unaccounted(v.mat_in, v.prod_mass_out, v.waste_out_scn),
              loss_targets, LossSplit(Len(loss_targets)))

UnaccountedMaterial(v) ==
    IF ~Running(v) THEN v
    ELSE IF v.blocks = <<>> THEN Raise(v, "IndexError", 98)
    ELSE AttributeTo(v, LossTargets(v.blocks))

\* ---------- Energy ----------
Allocate(v, elec_kwh, gas_kwh, has_energy) ==
    [elec_kwh     |-> elec_kwh,
     gas_kwh      |-> gas_kwh,
     has_energy   |-> has_energy,
     energy_alloc |-> IF has_energy /\ v.sc.allocate_energy
                      THEN EnergyAlloc(v.blocks, elec_kwh, gas_kwh) ELSE None,
     ai_messages  |-> v.ai_messages
                      \o (IF has_energy /\ FGt(v.energy_intensity_improve_pct, FZero)
                          THEN <<MsgEnergy(v.sc.energy_intensity_improve_pct)>> ELSE <<>>)
                      \o (IF has_energy /\ v.sc.allocate_energy THEN <<MsgAllocated>>
                          ELSE <<>>),
     assumptions  |-> v.assumptions \o (IF has_energy THEN <<AssumeEnergy>> ELSE <<>>)] @@ v

ScaleEnergy(v, totals) ==
    Allocate(v, EnergyScn(totals.elec, totals.has_energy, v.energy_intensity_improve_pct),
             EnergyScn(totals.gas, totals.has_energy, v.energy_intensity_improve_pct),
             totals.has_energy)

Energy(v) ==
    IF ~Running(v) THEN v
    ELSE IF "energy_site" \notin DOMAIN v.data THEN Raise(v, "KeyError", 114)
    ELSE ScaleEnergy(v, _energy_totals(v.data.energy_site))

\* ---------- Circularity metrics ----------
Divert(v, waste_by_type, frames, route_col, diverted_kg_scn) ==
    [model           |-> [v.model EXCEPT !.data.waste_summary = frames.waste_df],
     waste_by_type   |-> waste_by_type,
     diverted_kg_scn |-> diverted_kg_scn,
     diversion_pct   |-> RatioPct(diverted_kg_scn, v.waste_out_scn),
     opportunities   |-> Opportunities(waste_by_type),
     assumptions     |-> v.assumptions
                         \o (IF route_col = NoCol THEN <<AssumeNoRoute>> ELSE <<>>)] @@ v

\* Mutation: the diverted mass left as measured.
DivertedKgScnUnscaled(diverted_kg, scrap_reduction_pct) == diverted_kg

\* diverted_kg_scn = diverted_kg * (1.0 - scrap_reduction_pct)
DivertedKgScn(diverted_kg, scrap_reduction_pct) ==
    FMul(diverted_kg, FSub(F(1), scrap_reduction_pct))

DivertRouted(v, waste_by_type, frames, route_col, kg_col) ==
    Divert(v, waste_by_type, frames, route_col,
           DivertedKgScn(IF route_col # NoCol THEN DivertedKg(frames.tmp, route_col, kg_col)
                         ELSE FZero,
                         v.scrap_reduction_pct))

Routes(v, by_type, route_col, kg_col) ==
    IF route_col # NoCol /\ kg_col = NoCol
    THEN Raise([model |-> [v.model EXCEPT !.data.waste_summary = by_type.waste_df]] @@ v,
               "KeyError", 150)
    ELSE DivertRouted(v, by_type.out,
                      IF route_col # NoCol THEN DivertedFrames(by_type.waste_df, kg_col)
                      ELSE [waste_df |-> by_type.waste_df, tmp |-> by_type.waste_df],
                      route_col, kg_col)

ByType(v, by_type) ==
    Routes(v, by_type, _find_col(by_type.waste_df, {"route", "disposal"}),
           _find_col(by_type.waste_df, {"kg", "quantity"}))

Circularity(v) ==
    IF ~Running(v) THEN v ELSE ByType(v, _sum_waste_by_type(v.waste_df))

\* ---------- Build flows for Sankey, KPIs, the dict returned ----------
Result(v) ==
    [status           |-> "ok",
     mat_in_kg        |-> v.mat_in,
     prod_out_kg      |-> v.prod_mass_out,
     waste_out_kg     |-> v.waste_out_scn,
     unaccounted_kg   |-> v.unaccounted,
     material_eff_pct |-> RatioPct(v.prod_mass_out, v.mat_in),
     waste_intensity  |-> Ratio(v.waste_out_scn, v.prod_mass_out),
     energy_elec_kwh  |-> v.elec_kwh,
     energy_gas_kwh   |-> v.gas_kwh,
     energy_intensity_kwh_per_kg |-> Ratio(FAdd(v.elec_kwh, v.gas_kwh), v.prod_mass_out),
     energy_alloc_table |-> v.energy_alloc,
     waste_by_type    |-> v.waste_by_type,
     diversion_pct    |-> v.diversion_pct,
     diverted_kg      |-> v.diverted_kg_scn,
     opportunities    |-> v.opportunities,
     ai_messages      |-> v.ai_messages,
     assumptions      |-> v.assumptions,
     flows_table      |-> FlowRows(v.model, v.mat_in, v.prod_mass_out, v.waste_out_scn,
                                   v.unaccounted, v.losses),
     blocks           |-> v.blocks,
     boundary_start   |-> v.model.boundary_start,
     boundary_end     |-> v.model.boundary_end]

\* the value returned or the exception raised, and the caller's model as the
\* call leaves it
Leave(v) == [ret |-> IF Running(v) THEN Result(v) ELSE v.raised, model |-> v.model]

compute_balances(model) ==
    Leave(Circularity(Energy(UnaccountedMaterial(ApplyScenarios(Inputs(Locals(model)))))))

\* Mutation: the labels taken without pd.unique.
UniqueKeepAll(xs, seen) == seen \o xs

\* pd.unique: the distinct values in order of first occurrence
RECURSIVE Unique(_, _)
Unique(xs, seen) ==
    IF xs = <<>> THEN seen
    ELSE Unique(Tail(xs), IF \E i \in 1..Len(seen) : seen[i] = Head(xs)
                          THEN seen ELSE Append(seen, Head(xs)))

\* idx[x] of idx = {lab: i for i, lab in enumerate(labels)} (0-based)
LabelIndex(labels, x) ==
    (CHOOSE i \in 1..Len(labels) : labels[i] = x /\ \A j \in (i + 1)..Len(labels) : labels[j] # x) - 1

build_sankey_inputs(results) ==
    LET flows  == results.flows_table
        labels == Unique([i \in 1..Len(flows) |-> flows[i].from]
                         \o [i \in 1..Len(flows) |-> flows[i].to], <<>>)
    IN  [labels  |-> labels,
         sources |-> [i \in 1..Len(flows) |-> LabelIndex(labels, flows[i].from)],
         targets |-> [i \in 1..Len(flows) |-> LabelIndex(labels, flows[i].to)],
         values  |-> [i \in 1..Len(flows) |-> flows[i].kg]]

build_flow_model(site_name, boundary_start, boundary_end, process_blocks, data_bundle, time_period, scenarios) ==
    [site_name      |-> site_name,
     boundary_start |-> boundary_start,
     boundary_end   |-> boundary_end,
     blocks         |-> process_blocks,
     data           |-> data_bundle,
     time_period    |-> time_period,
     scenarios      |-> scenarios]

\* ------------------------------------------------------------------------
\* Inputs
\* ------------------------------------------------------------------------
MaxBlocks == 3

ScrapMax  == 30
YieldMax  == 15
EnergyMax == 20

\* slider positions sampled from 0..ScrapMax, 0..YieldMax, 0..EnergyMax
ScrapSamples  == {0, 9, ScrapMax}
YieldSamples  == {0, 7, YieldMax}
EnergySamples == {0, EnergyMax}

Scenario(scrap, yield, energy, alloc) ==
    [scrap_reduction_pct |-> scrap, yield_improve_pct |-> yield,
     energy_intensity_improve_pct |-> energy, allocate_energy |-> alloc]

\* the defaults, each slider moved alone, and two mixed settings
Scenarios ==
    {Scenario(s, 0, 0, FALSE) : s \in ScrapSamples}
    \cup {Scenario(0, y, 0, FALSE) : y \in YieldSamples}
    \cup {Scenario(0, 0, e, FALSE) : e \in EnergySamples}
    \cup {Scenario(0, 0, 0, TRUE), Scenario(9, 7, 0, FALSE),
          Scenario(ScrapMax, YieldMax, EnergyMax, TRUE)}

\* a stage as the Add button appends it, its label, type and yield as edited
Block(name, label, type, yield) ==
    [name |-> name, user_label |-> label, type |-> type, yield_pct |-> yield,
     primary_material |-> "Mild steel sheet 2mm", throughput_unit |-> "kg"]

BlockKinds ==
    {Block("Cutting", "Cutting", "cutting", 92), Block("Forming", "Forming", "forming", 80),
     Block("Forming", "Press brake", "forming", 85), Block("Assembly", "Assembly", "assembly", 92)}

RECURSIVE BlockSeqs(_)
BlockSeqs(n) ==
    IF n = 0 THEN {<<>>}
    ELSE {Append(bs, b) : bs \in BlockSeqs(n - 1), b \in BlockKinds}

\* the non-empty chains of up to MaxBlocks blocks
Chains == UNION {BlockSeqs(n) : n \in 1..MaxBlocks}

RefChain == <<Block("Cutting", "Cutting", "cutting", 92),
              Block("Forming", "Forming", "forming", 80),
              Block("Assembly", "Assembly", "assembly", 92)>>

TextCol(name, text) == [name |-> name, dtype |-> "object", text |-> text]
Repeat(s, n) == [i \in 1..n |-> s]
IntCol(name, vals)     == [name |-> name, dtype |-> "int64", vals |-> vals]

MaterialPurchases(hasMass, kg) ==
    << TextCol("Material", Repeat("Mild steel sheet 2mm", Len(kg))),
       IntCol(IF hasMass THEN "Weight (kg)" ELSE "Cost (GBP)", kg) >>

ProductionOutput(hasQty, pcs) ==
    << TextCol("Product", Repeat("Bracket", Len(pcs))),
       IntCol(IF hasQty THEN "Units Produced" ELSE "Shift", pcs) >>

EnergySite(hasElec, hasGas, elec, gas) ==
    << TextCol("Month", Repeat("Jan", Len(elec))) >>
    \o (IF hasElec THEN <<IntCol("Electricity (kWh)", elec)>> ELSE <<>>)
    \o (IF hasGas THEN <<IntCol("Gas (kWh)", gas)>> ELSE <<>>)

WasteRow(type, kg, route) == [type |-> type, kg |-> kg, route |-> route]

WasteSummary(hasType, hasQty, hasRoute, rows) ==
    << TextCol("Month", Repeat("Jan", Len(rows))) >>
    \o (IF hasType
        THEN <<TextCol("Waste Type", [i \in 1..Len(rows) |-> rows[i].type])>> ELSE <<>>)
    \o (IF hasQty THEN <<IntCol("Quantity (kg)", [i \in 1..Len(rows) |-> rows[i].kg])>> ELSE <<>>)
    \o (IF hasRoute
        THEN <<TextCol("Disposal Route", [i \in 1..Len(rows) |-> rows[i].route])>> ELSE <<>>)

RefMaterial == <<600, 400>>
RefUnits    == <<15, 10>>
RefElec     == <<1200, 800>>
RefGas      == <<500, 400>>
RefWaste    == << WasteRow("Steel scrap", 200, "Recycling"), WasteRow("Mixed waste", 130, "Landfill") >>

MaterialRows == {RefMaterial, <<100>>, <<0>>}
UnitRows     == {RefUnits, <<0>>, <<4, -6>>}
WasteRows    == {RefWaste,
                 << WasteRow("Steel scrap", 600, "REUSE"), WasteRow("Paint sludge", 0, "Landfill") >>,
                 << WasteRow("Mixed waste", 0, "Landfill") >>,
                 << WasteRow("Steel scrap", 40, "Recycling"), WasteRow("Mixed waste", -90, "Landfill") >>}
EnergyRows   == {<<RefElec, RefGas>>, <<<<0>>, <<0>>>>}

Bundle(production, material, energy, waste) ==
    [production_output |-> production, material_purchases |-> material,
     energy_site |-> energy, waste_summary |-> waste]

\* every table complete, the quantities varied
ValueBundles ==
    {Bundle(ProductionOutput(TRUE, u), MaterialPurchases(TRUE, m),
            EnergySite(TRUE, TRUE, e[1], e[2]), WasteSummary(TRUE, TRUE, TRUE, w)) :
        u \in UnitRows, m \in MaterialRows, e \in EnergyRows, w \in WasteRows}

\* the reference quantities, every combination of expected columns present or absent
LayoutBundles ==
    {Bundle(ProductionOutput(c[1], RefUnits), MaterialPurchases(c[2], RefMaterial),
            EnergySite(c[3], c[4], RefElec, RefGas), WasteSummary(c[5], c[6], c[7], RefWaste)) :
        c \in [1..7 -> BOOLEAN]}

RefBundle == Bundle(ProductionOutput(TRUE, RefUnits), MaterialPurchases(TRUE, RefMaterial),
                    EnergySite(TRUE, TRUE, RefElec, RefGas),
                    WasteSummary(TRUE, TRUE, TRUE, RefWaste))

StartGate == "Goods In (Raw Material)"
EndGate   == "Dispatch (Finished Goods)"

Model(start, blocks, data, sc) ==
    build_flow_model("SME Metal Fab Site", start, EndGate, blocks, data, "Quarter", sc)

\* the reference chain over every bundle and scenario; every chain (and a start
\* gate named like a stage) over the reference bundle
Models ==
    {Model(StartGate, RefChain, d, sc) : d \in ValueBundles \cup LayoutBundles, sc \in Scenarios}
    \cup {Model(g, bs, RefBundle, sc) :
            g \in {StartGate, "Cutting"}, bs \in Chains,
            sc \in {Scenario(0, 0, 0, FALSE), Scenario(ScrapMax, YieldMax, EnergyMax, TRUE)}}

\* ------------------------------------------------------------------------
\* The calls: the results step builds the model, calls compute_balances and
\* then build_sankey_inputs, and does so again on every rerun.  before holds
\* the model handed to the latest call and the results of the call before it.
\* st is the Streamlit session the script runs in (None when compute_balances
\* is called on a model directly).
\* ------------------------------------------------------------------------
VARIABLES model, results, sankey, pc, before, st

vars == <<model, results, sankey, pc, before, st>>

Init ==
    /\ model \in Models
    /\ results = None
    /\ sankey = None
    /\ pc = "ready"
    /\ before = None
    /\ st = None

\* results = compute_balances(model), or the exception leaves the script run
Call(call) ==
    /\ model' = call.model
    /\ results' = call.ret
    /\ pc' = IF call.ret.status = "ok" THEN "returned" ELSE "raised"

ComputeBalances ==
    /\ pc \in {"ready", "drawn"}
    /\ Call(compute_balances(model))
    /\ before' = [model |-> model, results |-> results]
    /\ sankey' = None
    /\ UNCHANGED st

BuildSankey ==
    /\ pc = "returned"
    /\ sankey' = build_sankey_inputs(results)
    /\ pc' = "drawn"
    /\ UNCHANGED <<model, results, before, st>>

Next == ComputeBalances \/ BuildSankey

Spec == Init /\ [][Next]_vars

\* ------------------------------------------------------------------------
\* The app: every interaction with a widget reruns the script over the
\* session.  st holds st.session_state (step, process_blocks, bundle) and the
\* values of the sidebar widgets and of the file uploader; model, results and
\* sankey are the locals of the results step of the latest run (None in a run
\* that does not reach them), pc says how that run ended.
\* ------------------------------------------------------------------------
Session(step, process_blocks, bundle, demo_mode, scenarios, uploads) ==
    [step |-> step, process_blocks |-> process_blocks, bundle |-> bundle,
     demo_mode |-> demo_mode, scenarios |-> scenarios, uploads |-> uploads]

\* the session after the first run: step 1, no block, no bundle, the widgets
\* at their defaults
FirstSession == Session(1, <<>>, None, TRUE, Scenario(0, 0, 0, FALSE), <<>>)

\* session_state.step = step
goto(s, step) == [s EXCEPT !.step = step]

\* the block of the library picked in the "Select block to add" box
Library == {"Cutting"}

\* the type suggested for a block of the library, one of the process types
suggest_process_type(add_block) ==
    CASE add_block = "Cutting" -> "cutting"
      [] OTHER                 -> "other"

\* process_blocks.append({...}) of the Add button
AddBlock(process_blocks, add_block) ==
    Append(process_blocks, Block(add_block, add_block, suggest_process_type(add_block), 92))

\* Mutation: the first block dropped in place of the last.
UndoHead(process_blocks) ==
    IF process_blocks # <<>> THEN Tail(process_blocks) ELSE process_blocks

\* process_blocks[:-1] of the Undo button, when the list is not empty
UndoBlock(process_blocks) ==
    IF process_blocks # <<>> THEN SubSeq(process_blocks, 1, Len(process_blocks) - 1)
    ELSE process_blocks

\* the values typed or picked in the block details
EditValues ==
    {[field |-> "user_label", value |-> "Press brake"], [field |-> "type", value |-> "forming"]}

\* block = process_blocks[idx - 1]; block[field] = the widget's value
EditBlock(process_blocks, idx, edit) ==
    [process_blocks EXCEPT ![idx] =
        [f \in DOMAIN @ |-> IF f = edit.field THEN edit.value ELSE @[f]]]

\* can_next of the process map step
CanNextMap(s) == Len(s.process_blocks) >= 3

\* can_next of the data step
CanNextData(s) == ~IsNone(s.bundle)

\* the four tables of make_synthetic_bundle()
make_synthetic_bundle == RefBundle

\* an uploaded file as parsed, with the dataset type confirmed for it
File(name, df, dtype_confirm) == [name |-> name, df |-> df, dtype_confirm |-> dtype_confirm]

ProductionFile == File("production.csv", RefBundle.production_output, "production_output")

\* what the uploader holds: one file, the four files, two files confirmed as
\* the same type
UploadSets ==
    { <<ProductionFile>>,
      <<ProductionFile,
        File("materials.csv", RefBundle.material_purchases, "material_purchases"),
        File("energy.csv", RefBundle.energy_site, "energy_site"),
        File("waste.csv", RefBundle.waste_summary, "waste_summary")>>,
      <<ProductionFile,
        File("output.xlsx", ProductionOutput(FALSE, RefUnits), "production_output")>> }

\* bundle = {}; for name, df in parsed: bundle[dtype_confirm] = df
RECURSIVE UploadBundle(_, _)
UploadBundle(parsed, bundle) ==
    IF parsed = <<>> THEN bundle
    ELSE UploadBundle(Tail(parsed), (Head(parsed).dtype_confirm :> Head(parsed).df) @@ bundle)

\* the bundle of the data step: None when nothing is available
StepBundle(s) ==
    IF s.demo_mode THEN make_synthetic_bundle
    ELSE IF s.uploads # <<>> THEN UploadBundle(s.uploads, <<>>)
    ELSE None

\* Mutation: the results step guarded on the data only.
MissingData(process_blocks, bundle) == IsNone(bundle)

\* not st.session_state.process_blocks or st.session_state.bundle is None
MissingMapOrData(process_blocks, bundle) == process_blocks = <<>> \/ IsNone(bundle)

\* the locals of a run that does not reach the results step
NoResults(how) ==
    /\ model' = None
    /\ results' = None
    /\ sankey' = None
    /\ pc' = how
    /\ before' = None

\* steps 1 and 2; the uploader is not drawn and forgets its files
Rendered(s) ==
    /\ st' = [s EXCEPT !.uploads = <<>>]
    /\ NoResults("rendered")

\* STEP 3: the bundle of this run is stored when there is one
Stored(s, bundle) ==
    /\ st' = [s EXCEPT !.bundle = IF IsNone(bundle) THEN @ ELSE bundle,
                       !.uploads = IF s.demo_mode THEN <<>> ELSE @]
    /\ NoResults("rendered")

\* results = compute_balances(model); sankey = build_sankey_inputs(results)
Computed(call) ==
    /\ model' = call.model
    /\ results' = call.ret
    /\ sankey' = IF call.ret.status = "ok" THEN build_sankey_inputs(call.ret) ELSE None
    /\ pc' = IF call.ret.status = "ok" THEN "drawn" ELSE "raised"
    /\ before' = None

\* STEP 4: st.stop() without a process map or data, else the model is built
\* from the scope, the blocks, the bundle and the sliders
ResultsStep(s) ==
    /\ st' = [s EXCEPT !.uploads = <<>>]
    /\ IF MissingMapOrData(s.process_blocks, s.bundle) THEN NoResults("stopped")
       ELSE Computed(compute_balances(Model(StartGate, s.process_blocks, s.bundle, s.scenarios)))

\* one run of the script over the session s
Run(s) ==
    CASE s.step = 3 -> Stored(s, StepBundle(s))
      [] s.step = 4 -> ResultsStep(s)
      [] OTHER      -> Rendered(s)

AppInit ==
    /\ st = FirstSession
    /\ model = None
    /\ results = None
    /\ sankey = None
    /\ pc = "rendered"
    /\ before = None

\* the sidebar radio
SelectStep == \E step \in 1..4 : step # st.step /\ Run(goto(st, step))

\* the Next buttons; those of steps 2 and 3 are disabled unless can_next
NextButton ==
    \/ st.step = 1 /\ Run(goto(st, 2))
    \/ st.step = 2 /\ CanNextMap(st) /\ Run(goto(st, 3))
    \/ st.step = 3 /\ CanNextData(st) /\ Run(goto(st, 4))

BackButton == st.step > 1 /\ Run(goto(st, st.step - 1))

\* the "Use synthetic data" toggle
ToggleDemo == Run([st EXCEPT !.demo_mode = ~@])

\* the scenario sliders and the allocation toggle
MoveSliders ==
    \E sc \in {Scenario(0, 0, 0, FALSE), Scenario(ScrapMax, YieldMax, EnergyMax, TRUE)} :
        sc # st.scenarios /\ Run([st EXCEPT !.scenarios = sc])

Add ==
    /\ st.step = 2
    /\ Len(st.process_blocks) < MaxBlocks
    /\ \E add_block \in Library :
          Run([st EXCEPT !.process_blocks = AddBlock(@, add_block)])

Undo ==
    /\ st.step = 2
    /\ Run([st EXCEPT !.process_blocks = UndoBlock(@)])

\* the block details: block idx selected and one of its fields changed
Edit ==
    /\ st.step = 2
    /\ \E idx \in 1..Len(st.process_blocks), edit \in EditValues :
          /\ st.process_blocks[idx][edit.field] # edit.value
          /\ Run([st EXCEPT !.process_blocks = EditBlock(@, idx, edit)])

\* files put into the uploader of the data step
Upload ==
    /\ st.step = 3
    /\ ~st.demo_mode
    /\ \E files \in UploadSets : Run([st EXCEPT !.uploads = files])

AppNext ==
    \/ SelectStep
    \/ NextButton
    \/ BackButton
    \/ ToggleDemo
    \/ MoveSliders
    \/ Add
    \/ Undo
    \/ Edit
    \/ Upload

AppSpec == AppInit /\ [][AppNext]_vars

\* ------------------------------------------------------------------------
\* Properties
\* ------------------------------------------------------------------------
\* compute_balances has returned a result
Returned == pc \in {"returned", "drawn"}

FAbs(a) == [a EXCEPT !.s = 0]

\* mat_in_kg - prod_out_kg - waste_out_kg, evaluated left to right
Residual(r) == FSub(FSub(r.mat_in_kg, r.prod_out_kg), r.waste_out_kg)

\* prod_out_kg + waste_out_kg + unaccounted_kg, evaluated left to right
Recomposed(r) == FAdd(FAdd(r.prod_out_kg, r.waste_out_kg), r.unaccounted_kg)

\* 2^-50 * (|mat_in_kg| + |prod_out_kg| + |waste_out_kg|): eight roundings of
\* the three masses
ClosureSlack(r) ==
    FMul([s |-> 0, m |-> BShl(<<1>>, Precision - 1), e |-> -(Precision - 1) - 50],
         FAdd(FAdd(FAbs(r.mat_in_kg), FAbs(r.prod_out_kg)), FAbs(r.waste_out_kg)))

\* C1, as amended: in every result unaccounted_kg is
\* max(mat_in_kg - prod_out_kg - waste_out_kg, 0.0) as binary64 evaluates it,
\* and when that residual is non-negative prod_out_kg + waste_out_kg +
\* unaccounted_kg differs from mat_in_kg by rounding only: by at most
\* 2^-50 * (|mat_in_kg| + |prod_out_kg| + |waste_out_kg|).
C1_MassClosureToRounding ==
    Returned =>
        /\ results.unaccounted_kg = FMax(Residual(results), FZero)
        /\ FGe(Residual(results), FZero) =>
               FLe(FAbs(FSub(results.mat_in_kg, Recomposed(results))), ClosureSlack(results))

\* a result with a positive residual whose three parts do not add up to
\* mat_in_kg bit for bit
C1_RoundedClosure ==
    /\ Returned
    /\ FGt(Residual(results), FZero)
    /\ Recomposed(results) # results.mat_in_kg

\* C1, as stated: whenever the residual is non-negative,
\* mat_in_kg == prod_out_kg + waste_out_kg + unaccounted_kg holds exactly.
C1_MassClosureExact ==
    (Returned /\ FGe(Residual(results), FZero)) => Recomposed(results) = results.mat_in_kg

\* the waste quantities and the production quantities of the tables sum to
\* non-negative totals
NonNegativeTotals(m) ==
    /\ FGe(OrZero(_sum_waste_kg(m.data.waste_summary)), FZero)
    /\ FGe(Qty(m.data.production_output), FZero)

NonNegativeResult(r) ==
    /\ FGe(r.unaccounted_kg, FZero)
    /\ FGe(r.waste_out_kg, FZero)
    /\ FGe(r.material_eff_pct, FZero)

\* C2, as amended: for valid inputs whose waste quantities and production
\* quantities sum to non-negative totals, unaccounted_kg >= 0,
\* waste_out_kg >= 0 and material_eff_pct >= 0.
C2_NonNegativeForNonNegativeTotals ==
    (Returned /\ NonNegativeTotals(model)) => NonNegativeResult(results)

\* a result from non-negative totals in which the three quantities are positive
C2_PositiveResult ==
    /\ Returned
    /\ NonNegativeTotals(model)
    /\ FGt(results.unaccounted_kg, FZero)
    /\ FGt(results.waste_out_kg, FZero)
    /\ FGt(results.material_eff_pct, FZero)

\* C2, as stated: for all valid inputs unaccounted_kg >= 0, waste_out_kg >= 0
\* and material_eff_pct >= 0.
C2_NonNegative == Returned => NonNegativeResult(results)

\* the loss_inferred rows of a flows table, in order
LossRows(flows) == SelectSeq(flows, LAMBDA row : row.kind = "loss_inferred")

\* the share of unaccounted the i-th of n attribution targets is to receive
FixedShare(unaccounted, i, n) ==
    IF n = 1 THEN unaccounted
    ELSE IF i = 1 THEN FMul(unaccounted, Lit06)
    ELSE IF i = 2 THEN FMul(unaccounted, Lit04)
    ELSE FZero

\* the call did not end in the KeyError of the diversion step
NoDiversionError == ~(results.status = "raised" /\ results.line = 150)

DistinctLabels(targets) ==
    \A i, j \in 1..Len(targets) : targets[i].user_label = targets[j].user_label => i = j

\* C3, as stated, for attribution targets that carry distinct labels: the call
\* returns a result, also with three or more cutting/forming stages, in which
\* a single attribution target receives all of unaccounted and of two or more
\* the first receives 60%, the second 40% and every further one zero.
C3_FixedSplit ==
    (pc # "ready" /\ NoDiversionError /\ DistinctLabels(LossTargets(model.blocks))) =>
        /\ results.status = "ok"
        /\ LET targets == LossTargets(model.blocks)
               rows    == LossRows(results.flows_table)
           IN  /\ Len(rows) = Len(targets)
               /\ \A i \in 1..Len(targets) :
                      /\ rows[i].from = targets[i].user_label
                      /\ rows[i].kg = FixedShare(results.unaccounted_kg, i, Len(targets))

\* the expected columns of the four tables, each with the table and the
\* keywords that resolve it
Gaps ==
    {[table |-> "material_purchases", keywords |-> {"kg", "weight"}, gap |-> "mass"],
     [table |-> "waste_summary", keywords |-> {"kg", "quantity"}, gap |-> "waste quantity"],
     [table |-> "waste_summary", keywords |-> {"waste"}, gap |-> "waste type"],
     [table |-> "waste_summary", keywords |-> {"route", "disposal"}, gap |-> "disposal route"],
     [table |-> "production_output", keywords |-> {"qty", "produced", "quantity"},
      gap |-> "production quantity"],
     [table |-> "energy_site", keywords |-> {"electric"}, gap |-> "electricity"],
     [table |-> "energy_site", keywords |-> {"gas"}, gap |-> "gas"]}

Missing(m, g) == _find_col(m.data[g.table], g.keywords) = NoCol

\* the quantity affected by a gap has its zero or empty default
DefaultFor(r, gap) ==
    CASE gap = "mass"                -> r.mat_in_kg = FZero
      [] gap = "waste quantity"      -> r.waste_out_kg = FZero /\ r.diverted_kg = FZero
      [] gap = "waste type"          -> NumRows(r.waste_by_type) = 0 /\ r.opportunities = <<>>
      [] gap = "disposal route"      -> r.diverted_kg = FZero /\ r.diversion_pct = FZero
      [] gap = "production quantity" -> r.prod_out_kg = FZero
      [] gap = "electricity"         -> r.energy_elec_kwh = FZero
      [] gap = "gas"                 -> r.energy_gas_kwh = FZero

\* the assumption strings of compute_balances that record a gap
AssumptionsFor(gap) ==
    CASE gap = "mass"           -> {AssumeNoMaterial}
      [] gap = "waste quantity" -> {AssumeNoWaste}
      [] gap = "disposal route" -> {AssumeNoRoute}
      [] OTHER                  -> {}

Recorded(r, gap) == \E i \in 1..Len(r.assumptions) : r.assumptions[i] \in AssumptionsFor(gap)

\* C4, as stated: with a non-empty stage sequence and the four tables present
\* the call never raises over a missing column; for every expected column that
\* is absent the affected quantity is its zero or empty default and an
\* assumption string recording the gap is in the assumptions list.
C4_GracefulGaps ==
    (pc # "ready" /\ Len(LossTargets(model.blocks)) <= 2) =>
        /\ results.status = "ok"
        /\ \A g \in Gaps : Missing(model, g) =>
               DefaultFor(results, g.gap) /\ Recorded(results, g.gap)

\* C4: the part of the statement about exceptions alone
C4_NeverRaises ==
    (pc # "ready" /\ Len(LossTargets(model.blocks)) <= 2) => results.status = "ok"

\* the result of the call with the sliders at sc, the stages and data as they are
Rerun(sc) == compute_balances([model EXCEPT !.scenarios = sc]).ret

\* a slider moved up from p: by one step, and to its maximum
StepsUp(p, max) == {q \in {p + 1, max} : p < q /\ q <= max}

RawWaste(m) == OrZero(_sum_waste_kg(m.data.waste_summary))

\* C5: for fixed stages and data with positive baseline waste, a larger
\* scrap_reduction_pct (the other sliders equal) gives a strictly smaller
\* waste_out_kg.
C5_ScrapReducesWaste ==
    (pc = "returned" /\ FGt(RawWaste(model), FZero)) =>
        \A p \in StepsUp(model.scenarios.scrap_reduction_pct, ScrapMax) :
            FLt(Rerun([model.scenarios EXCEPT !.scrap_reduction_pct = p]).waste_out_kg,
                results.waste_out_kg)

\* a result for positive baseline waste with the scrap slider strictly between
\* its ends
C5_ScrapSliderMoved ==
    /\ pc = "returned"
    /\ FGt(RawWaste(model), FZero)
    /\ model.scenarios.scrap_reduction_pct \in 1..(ScrapMax - 1)
    /\ FLt(results.waste_out_kg, RawWaste(model))

YieldRaises(m, r) ==
    \A y \in StepsUp(m.scenarios.yield_improve_pct, YieldMax) :
        FGt(Rerun([m.scenarios EXCEPT !.yield_improve_pct = y]).prod_out_kg, r.prod_out_kg)

\* C6, as amended: for fixed stages and data whose production quantities sum
\* to a positive total, a larger yield_improve_pct (the other sliders equal)
\* gives a strictly greater prod_out_kg.
C6_YieldRaisesPositiveOutput ==
    (pc = "returned" /\ FGt(Qty(model.data.production_output), FZero)) =>
        YieldRaises(model, results)

\* a result for positive production with the yield slider strictly between its
\* ends
C6_YieldSliderMoved ==
    /\ pc = "returned"
    /\ FGt(Qty(model.data.production_output), FZero)
    /\ model.scenarios.yield_improve_pct \in 1..(YieldMax - 1)
    /\ FGt(results.prod_out_kg, FMul(Qty(model.data.production_output), F(15)))

\* C6, as stated: for fixed stages and data, a larger yield_improve_pct gives a
\* strictly greater prod_out_kg.
C6_YieldRaisesOutput == pc = "returned" => YieldRaises(model, results)

EnergyData(m) == _energy_totals(m.data.energy_site).has_energy

\* a positive total has become strictly smaller, a zero total is still zero
Lowered(old, new) ==
    IF FGt(old, FZero) THEN FLt(new, old)
    ELSE IF old = FZero THEN new = FZero
    ELSE TRUE

\* C7, as amended: for fixed stages and data in which energy data exists, a
\* larger energy_intensity_improve_pct (the other sliders equal) makes each of
\* energy_elec_kwh and energy_gas_kwh that is positive strictly smaller, and
\* leaves a total that is zero at zero.
C7_EnergyLowersPositiveTotals ==
    (pc = "returned" /\ EnergyData(model)) =>
        \A e \in StepsUp(model.scenarios.energy_intensity_improve_pct, EnergyMax) :
            LET r == Rerun([model.scenarios EXCEPT !.energy_intensity_improve_pct = e])
            IN  /\ Lowered(results.energy_elec_kwh, r.energy_elec_kwh)
                /\ Lowered(results.energy_gas_kwh, r.energy_gas_kwh)

\* a result with one energy column resolved and positive, the other absent
C7_OneEnergyColumn ==
    /\ pc = "returned"
    /\ EnergyData(model)
    /\ model.scenarios.energy_intensity_improve_pct < EnergyMax
    /\ FGt(results.energy_elec_kwh, FZero)
    /\ results.energy_gas_kwh = FZero

\* C7, as stated: when energy data exists, a larger
\* energy_intensity_improve_pct makes both energy_elec_kwh and energy_gas_kwh
\* strictly smaller.
C7_EnergyLowersBoth ==
    (pc = "returned" /\ EnergyData(model)) =>
        \A e \in StepsUp(model.scenarios.energy_intensity_improve_pct, EnergyMax) :
            LET r == Rerun([model.scenarios EXCEPT !.energy_intensity_improve_pct = e])
            IN  /\ FLt(r.energy_elec_kwh, results.energy_elec_kwh)
                /\ FLt(r.energy_gas_kwh, results.energy_gas_kwh)

ZeroScenario == Scenario(0, 0, 0, FALSE)

\* the templates of the 'Scenario applied' highlights
ScenarioTemplates == {MsgScrap(0)[1], MsgYield(0)[1], MsgEnergy(0)[1]}

\* the quantities of the rows routed to recycling or reuse, summed as they
\* stand in the table
RawDiverted(waste_df) ==
    LET route_col == _find_col(waste_df, {"route", "disposal"})
        kg_col    == _find_col(waste_df, {"kg", "quantity"})
    IN  IF route_col # NoCol THEN DivertedKg(waste_df, route_col, kg_col) ELSE FZero

\* C8: with the three percentages 0 and allocate_energy false the result holds
\* the baseline aggregates exactly: waste_out_kg the raw waste sum,
\* prod_out_kg the production count times 15, energy_elec_kwh and
\* energy_gas_kwh the raw column sums, diverted_kg the raw diverted sum; there
\* is no energy_alloc_table and no 'Scenario applied' highlight.
C8_ZeroScenarioIdentity ==
    (pc = "returned" /\ model.scenarios = ZeroScenario) =>
        /\ results.waste_out_kg = RawWaste(model)
        /\ results.prod_out_kg = FMul(Qty(model.data.production_output), F(15))
        /\ results.energy_elec_kwh = _energy_totals(model.data.energy_site).elec
        /\ results.energy_gas_kwh = _energy_totals(model.data.energy_site).gas
        /\ results.diverted_kg = RawDiverted(model.data.waste_summary)
        /\ IsNone(results.energy_alloc_table)
        /\ \A i \in 1..Len(results.ai_messages) :
               results.ai_messages[i][1] \notin ScenarioTemplates

\* a result of the zero scenario with positive waste, production, energy and
\* diverted mass
C8_ZeroScenarioResult ==
    /\ pc = "returned"
    /\ model.scenarios = ZeroScenario
    /\ FGt(results.waste_out_kg, FZero)
    /\ FGt(results.prod_out_kg, FZero)
    /\ FGt(results.energy_elec_kwh, FZero)
    /\ FGt(results.diverted_kg, FZero)

\* C9: build_sankey_inputs returns sources, targets and values as long as
\* flows_table has rows, every source and target an index into labels, labels
\* without duplicates, and labels[sources[i]], labels[targets[i]] the 'from'
\* and 'to' of edge i, also when stage labels repeat or are boundary labels.
C9_SankeyWellFormed ==
    pc = "drawn" =>
        LET flows  == results.flows_table
            labels == sankey.labels
        IN  /\ Len(sankey.sources) = Len(flows)
            /\ Len(sankey.targets) = Len(flows)
            /\ Len(sankey.values) = Len(flows)
            /\ \A i \in 1..Len(flows) :
                   /\ sankey.sources[i] \in 0..(Len(labels) - 1)
                   /\ sankey.targets[i] \in 0..(Len(labels) - 1)
                   /\ labels[sankey.sources[i] + 1] = flows[i].from
                   /\ labels[sankey.targets[i] + 1] = flows[i].to
            /\ \A i, j \in 1..Len(labels) : labels[i] = labels[j] => i = j

\* a diagram drawn for stages that share a label, one of them named like the
\* start boundary
C9_RepeatedLabels ==
    /\ pc = "drawn"
    /\ \E i, j \in 1..Len(model.blocks) :
           i # j /\ model.blocks[i].user_label = model.blocks[j].user_label
    /\ \E i \in 1..Len(model.blocks) : model.blocks[i].user_label = model.boundary_start

\* C10: a call leaves the stage sequence, the four tables and the scenario
\* parameters as they were handed to it, and a second call on them returns the
\* result of the first.
C10_InputsUnchanged ==
    pc # "ready" =>
        /\ model = before.model
        /\ (Returned /\ ~IsNone(before.results)) => results = before.results

\* a second call has returned, on a waste table with a disposal route column
C10_SecondCall ==
    /\ pc = "returned"
    /\ ~IsNone(before.results)
    /\ _find_col(model.data.waste_summary, {"route", "disposal"}) # NoCol

\* the rows of a flows table of one kind, in order
RowsOfKind(flows, kind) == SelectSeq(flows, LAMBDA row : row.kind = kind)

\* C14: the flows returned hold exactly one loss_inferred edge per attribution
\* target (every cutting or forming stage in chain order, else the first
\* stage), from that target's label to 'Process losses (unaccounted)', also
\* when targets carry the same label and when unaccounted is 0.
C14_OneLossEdgePerTarget ==
    Returned =>
        LET targets == LossTargets(model.blocks)
            rows    == RowsOfKind(results.flows_table, "loss_inferred")
        IN  /\ Len(rows) = Len(targets)
            /\ \A i \in 1..Len(rows) :
                  i <= Len(targets) =>
                      /\ rows[i].from = targets[i].user_label
                      /\ rows[i].to = "Process losses (unaccounted)"

\* 2^-50 * |x|: a few roundings of x
Roundings(x) ==
    FMul([s |-> 0, m |-> BShl(<<1>>, Precision - 1), e |-> -(Precision - 1) - 50], FAbs(x))

\* a and b differ by no more than a few roundings of a
Close(a, b) == FLe(FAbs(FSub(a, b)), Roundings(a))

\* the kg of the rows of a flows table, added in order
KgTotal(rows) == FSumFloats([i \in 1..Len(rows) |-> rows[i].kg])

\* C16: the magnitudes of the loss_inferred edges of flows_table add up to
\* unaccounted_kg (to the rounding of the additions), also when attribution
\* targets share a label.
C16_LossEdgesSumToUnaccounted ==
    Returned =>
        Close(results.unaccounted_kg,
              KgTotal(RowsOfKind(results.flows_table, "loss_inferred")))

\* the weights as stated: max(yield_pct_i, 1) of each block over the sum of
\* max(yield_pct_j, 1) of all blocks
StatedWeights(blocks) ==
    LET floored == [j \in 1..Len(blocks) |-> FMax(F(blocks[j].yield_pct), F(1))]
        total   == FSumFloats(floored)
    IN  [i \in 1..Len(blocks) |-> FDiv(floored[i], total)]

\* kwh is share rounded to a whole number: it is the rounding of the float
\* and twice their distance is at most 1 kWh
RoundedShare(kwh, share) ==
    /\ kwh = FRint(share)
    /\ FLe(FAbs(FSub(F(2 * kwh), FAdd(share, share))), F(1))

\* C15: energy_alloc_table is present exactly when allocate_energy is set and
\* an electricity or gas column exists; it then has one row per stage in chain
\* order, holding the electricity and gas totals of the result times
\* max(yield_pct_i, 1) / sum of max(yield_pct_j, 1), rounded to a whole kWh.
C15_EnergyAllocation ==
    Returned =>
        LET table   == results.energy_alloc_table
            blocks  == model.blocks
            weights == StatedWeights(model.blocks)
        IN  IF model.scenarios.allocate_energy /\ EnergyData(model)
            THEN /\ Len(table) = Len(blocks)
                 /\ \A i \in 1..Len(blocks) :
                       /\ table[i].Process = blocks[i].user_label
                       /\ RoundedShare(table[i].Electricity_kWh,
                                       FMul(results.energy_elec_kwh, weights[i]))
                       /\ RoundedShare(table[i].Gas_kWh,
                                       FMul(results.energy_gas_kwh, weights[i]))
            ELSE IsNone(table)

\* an allocation over stages of different yields, after the energy scenario
C15_UnequalShares ==
    /\ Returned
    /\ model.scenarios.allocate_energy
    /\ model.scenarios.energy_intensity_improve_pct > 0
    /\ EnergyData(model)
    /\ Len(model.blocks) >= 2
    /\ \E i, j \in 1..Len(model.blocks) :
          results.energy_alloc_table[i].Electricity_kWh
              > results.energy_alloc_table[j].Electricity_kWh
    /\ \A i \in 1..Len(model.blocks) : results.energy_alloc_table[i].Gas_kWh > 0

\* every number of a table is non-negative
NonNegativeCells(df) ==
    \A c \in 1..Len(df) :
        df[c].dtype = "int64" => \A i \in 1..Len(df[c].vals) : df[c].vals[i] >= 0

NonNegativeInputs(m) ==
    /\ NonNegativeCells(m.data.material_purchases)
    /\ NonNegativeCells(m.data.production_output)
    /\ NonNegativeCells(m.data.waste_summary)

\* max(mat_in_kg - waste_out_kg - unaccounted_kg, 0), evaluated left to right
StatedThroughput(r) ==
    FMax(FSub(FSub(r.mat_in_kg, r.waste_out_kg), r.unaccounted_kg), FZero)

\* one throughput_proxy edge between each adjacent pair of stages, each of the
\* stated magnitude
ThroughputEdges(m, r) ==
    LET rows == RowsOfKind(r.flows_table, "throughput_proxy")
    IN  /\ Len(rows) = Len(m.blocks) - 1
        /\ \A i \in 1..Len(rows) :
              i < Len(m.blocks) =>
                  /\ rows[i].from = m.blocks[i].user_label
                  /\ rows[i].to = m.blocks[i + 1].user_label
                  /\ rows[i].kg = StatedThroughput(r)

\* C17, as amended: for non-negative input quantities there is one
\* throughput_proxy edge between each adjacent stage pair, each of magnitude
\* max(mat_in_kg - waste_out_kg - unaccounted_kg, 0); this magnitude exceeds
\* prod_out_kg by no more than floating-point rounding, and equals it to that
\* rounding when the raw residual is non-negative.
C17_ThroughputNearOutput ==
    (Returned /\ NonNegativeInputs(model)) =>
        /\ ThroughputEdges(model, results)
        /\ FLe(FSub(StatedThroughput(results), results.prod_out_kg), ClosureSlack(results))
        /\ FGe(Residual(results), FZero) =>
               FLe(FAbs(FSub(StatedThroughput(results), results.prod_out_kg)),
                   ClosureSlack(results))

\* throughput edges of an unclamped result whose magnitude is above
\* prod_out_kg in the last bits
C17_ThroughputAboveOutput ==
    /\ Returned
    /\ NonNegativeInputs(model)
    /\ Len(model.blocks) >= 2
    /\ FGt(Residual(results), FZero)
    /\ FGt(StatedThroughput(results), results.prod_out_kg)

\* C17, as stated: the magnitude of the throughput_proxy edges never exceeds
\* prod_out_kg and is equal to it whenever the raw residual is non-negative.
C17_ThroughputWithinOutput ==
    (Returned /\ NonNegativeInputs(model)) =>
        /\ ThroughputEdges(model, results)
        /\ FLe(StatedThroughput(results), results.prod_out_kg)
        /\ FGe(Residual(results), FZero) => StatedThroughput(results) = results.prod_out_kg

NoRouteColumn(m) == _find_col(m.data.waste_summary, {"route", "disposal"}) = NoCol

\* diversion_pct lies in [0, 100] and is 0 without waste or without a
\* disposal-route column
DiversionInRange(m, r) ==
    /\ FGe(r.diversion_pct, FZero)
    /\ FLe(r.diversion_pct, F(100))
    /\ (FIsZero(r.waste_out_kg) \/ NoRouteColumn(m)) => FIsZero(r.diversion_pct)

\* C18, as amended: for fixed stages and data with non-negative waste
\* quantities, diversion_pct for a larger scrap_reduction_pct differs from the
\* one for a smaller by no more than floating-point rounding; it lies in
\* [0, 100] and is 0 when waste_out_kg is 0 or no disposal-route column exists.
C18_DiversionNearlyConstant ==
    (pc = "returned" /\ NonNegativeCells(model.data.waste_summary)) =>
        /\ DiversionInRange(model, results)
        /\ \A p \in StepsUp(model.scenarios.scrap_reduction_pct, ScrapMax) :
               Close(results.diversion_pct,
                     Rerun([model.scenarios EXCEPT !.scrap_reduction_pct = p]).diversion_pct)

\* a diversion strictly between 0 and 100 that changes in its last bits when
\* the scrap slider is moved up
C18_DiversionRounded ==
    /\ pc = "returned"
    /\ NonNegativeCells(model.data.waste_summary)
    /\ FGt(results.diversion_pct, FZero)
    /\ FLt(results.diversion_pct, F(100))
    /\ \E p \in StepsUp(model.scenarios.scrap_reduction_pct, ScrapMax) :
          Rerun([model.scenarios EXCEPT !.scrap_reduction_pct = p]).diversion_pct
              # results.diversion_pct

\* C18, as stated: diversion_pct is the same for every scrap_reduction_pct.
C18_DiversionConstant ==
    (pc = "returned" /\ NonNegativeCells(model.data.waste_summary)) =>
        /\ DiversionInRange(model, results)
        /\ \A p \in StepsUp(model.scenarios.scrap_reduction_pct, ScrapMax) :
               Rerun([model.scenarios EXCEPT !.scrap_reduction_pct = p]).diversion_pct
                   = results.diversion_pct

\* ------------------------------------------------------------------------
\* The app (AppSpec)
\* ------------------------------------------------------------------------
\* the latest run reached compute_balances
Invoked == pc \in {"drawn", "raised"}

\* C11: in every reachable state of the app compute_balances has been invoked
\* only on a non-empty stage sequence and a stored data bundle (those of the
\* session); when the results step runs without stages or without a bundle it
\* stops before the model is built.
C11_InvokedOnlyWithStagesAndData ==
    /\ Invoked =>
          /\ model.blocks # <<>>
          /\ model.blocks = st.process_blocks
          /\ ~IsNone(st.bundle)
          /\ model.data = st.bundle
    /\ (st.step = 4 /\ (st.process_blocks = <<>> \/ IsNone(st.bundle))) =>
          /\ pc = "stopped"
          /\ IsNone(model)
          /\ IsNone(results)

\* the results step reached from the sidebar with a bundle stored and every
\* stage undone: the run stops
C11_StoppedWithoutStages ==
    /\ st.step = 4
    /\ pc = "stopped"
    /\ st.process_blocks = <<>>
    /\ ~IsNone(st.bundle)

\* C12: whenever the app invokes compute_balances, the data bundle it passes
\* holds all four keys production_output, material_purchases, energy_site and
\* waste_summary, in synthetic and in upload mode.
C12_FourTables ==
    Invoked =>
        DOMAIN model.data =
            {"production_output", "material_purchases", "energy_site", "waste_summary"}

\* C13: a step of the app leaves the stage sequence as it is, appends one stage
\* at the tail, removes exactly the last stage, or changes fields of one stage
\* in place; Undo on an empty sequence leaves it empty.
C13_TailOnlyChanges ==
    [][LET old == st.process_blocks
           new == st'.process_blocks
       IN  /\ \/ new = old
              \/ Len(new) = Len(old) + 1 /\ SubSeq(new, 1, Len(old)) = old
              \/ old # <<>> /\ new = SubSeq(old, 1, Len(old) - 1)
              \/ /\ Len(new) = Len(old)
                 /\ \E i \in 1..Len(old) : \A j \in 1..Len(old) : j # i => new[j] = old[j]
           /\ (Undo /\ old = <<>>) => new = <<>>]_vars

\* two stages, each with a field changed in place after it was added
C13_EditedInPlace ==
    /\ Len(st.process_blocks) = 2
    /\ st.process_blocks[1].user_label = "Press brake"
    /\ st.process_blocks[1].type = "cutting"
    /\ st.process_blocks[2].user_label = "Cutting"
    /\ st.process_blocks[2].type = "forming"
====
